---- MODULE Spec2Model ----
(* Model of the command-execution core of claude-cli.py: the Executor      *)
(* (execute_command and the SIGINT callback handle_interrupt), the syntax   *)
(* validator of History, and the !run dispatch of StyledCLI.                *)
(*                                                                          *)
(* One coordinating thread runs the program.  The SIGINT callback runs on   *)
(* top of whatever that thread is doing, so it is modelled as a stack of    *)
(* handler frames (hs) above the coordinator's position (pc).  An exception *)
(* in flight is held in exc and unwound one frame at a time.                *)
EXTENDS Integers, Sequences, FiniteSets, TLC

\* ---------------------------------------------------------------- bounds
MaxIntr == 2
MaxIdleIntr == 1
MaxExec == 2
MaxBlocks == 2
MaxHist == 1
MaxCmdLen == 2
MaxLines == 4
MaxArgs == 2

\* ------------------------------------------------------- program constants
SIGTERM == 15
Whitespace == {" ", "\n", "\t"}
MetaChars == {"&", "|", ";", "<", ">", "(", ")"}
valid_languages == {"bash", "python"}
API_KEY == "ANTHROPIC_API_KEY"

\* ------------------------------------------------------------ input sets
CmdChars == {" ", "e", ";"}
CmdTexts == UNION {[1..n -> CmdChars] : n \in 0..MaxCmdLen}
SimpleText == <<"e">>
MetaText == <<"e", ";">>
BlockSet == {<<SimpleText, "bash">>, <<MetaText, "bash">>, <<SimpleText, "python">>}
Responses == UNION {[1..n -> BlockSet] : n \in 0..MaxBlocks}
ExitStatuses == {0, 7, -SIGTERM}
Selections == {"q", "", "1", "2", "x"}
RawSpecs == {SimpleText, MetaText}
NoCmd == <<<<>>, "bash">>
\* the triple backquote that delimits a block
FENCE == "fence"
\* lines of a reply, as their tokens: fences with and without a tag, tags
\* in upper case or not recognised, indentation, content and empty lines
LineSet == {<<FENCE, "bash">>, <<FENCE, "python">>, <<FENCE>>,
            <<" ", FENCE, " ">>, <<FENCE, " ", "BASH", " ">>, <<FENCE, "sh">>,
            <<"e">>, <<" ", "e">>, <<>>}
Texts == UNION {[1..n -> LineSet] : n \in 0..MaxLines}
NoChild == [w |-> "none", d |-> "none"]
EnvNames == {API_KEY, "PATH"}

VARIABLES
  pc,               \* position of the coordinating thread
  caller,           \* which call site invoked execute_command
  cmd,              \* cmd_tuple of the running execute_command
  capture_output,   \* its capture_output argument
  cmd_valid,        \* is_valid the validator returned for cmd
  cmd_failed,       \* the command run for cmd ended with a nonzero exit code
  output,           \* local variable output ("None" or "text")
  ret,              \* value execute_command handed back
  notices,          \* notices printed by the running execute_command
  liveIntr,         \* dispositions under which this execution was interrupted while live
  exc,              \* exception in flight ("none" when there is none)
  pend,             \* exception the finally block will re-raise
  handler,          \* SIGINT disposition: "custom" or "default"
  hs,               \* stack of running handle_interrupt frames
  current_process,  \* Executor.current_process: "None" or "Popen"
  returncode,       \* returncode of that Popen: <<>> until it was waited for
  recording_file,   \* Executor.recording_file: "None" or "name"
  tmp_exists,       \* scratch script of this execution is on disk
  rec_exists,       \* transcript of this execution is on disk
  child,            \* the wrapper process (w) and its descendant (d)
  session_history,  \* assistant replies, as their fenced blocks
  all_commands,     \* result of extract_commands(validate=True)
  commands,         \* list returned by get_valid_commands
  i,                \* loop index of _run_all_blocks
  hidx,             \* history_index of _run_interactive_selection
  nIntr,            \* interrupts delivered inside execute_command so far
  nIdle,            \* interrupts delivered to the read loop so far
  nExec,            \* calls of execute_command so far
  environ,          \* os.environ: the names set in the program's environment
  env,              \* local variable env: <<>> until it is built
  child_env,        \* environment handed to the last spawned command, if any
  lines,            \* text.split('\n') of the text given to extract_commands
  extracted,        \* the blocks extract_commands returned for it
  syntax_checked,   \* the block texts the examined validation gave to bash -n
  command_outputs,  \* StyledCLI.command_outputs: (block_num, output) pairs
  block_num,        \* the number given to "!run <n>" or to the selection prompt
  argv,             \* sys.argv[1:]
  api_key,          \* os.getenv('ANTHROPIC_API_KEY'): "None" when unset
  stdout,           \* what the program printed, in order
  exit_code,        \* the exit status of the process, "none" while it runs
  sent              \* number of requests posted by API.send_message

callVars == <<caller, cmd, capture_output, cmd_valid>>
statusVars == <<cmd_failed>>
localVars == <<output, ret, notices>>
excVars == <<exc, pend>>
sigVars == <<handler, hs>>
slotVars == <<current_process, returncode>>
fileVars == <<tmp_exists, rec_exists>>
procVars == <<child>>
cliVars == <<session_history, all_commands, commands, i, hidx,
            command_outputs, block_num>>
cntVars == <<nIntr, nIdle, nExec>>
envVars == <<environ, env, child_env>>
harnessVars == <<lines, extracted, syntax_checked>>
mainVars == <<argv, api_key, stdout, exit_code, sent>>

vars == <<pc, callVars, localVars, liveIntr, excVars, sigVars, slotVars,
          recording_file, fileVars, procVars, cliVars, cntVars, envVars,
          statusVars, harnessVars, mainVars>>

\* --------------------------------------------------------------- helpers
RECURSIVE LStrip(_)
LStrip(s) == IF s # <<>> /\ Head(s) \in Whitespace THEN LStrip(Tail(s)) ELSE s

RECURSIVE RStrip(_)
RStrip(s) ==
  IF s # <<>> /\ s[Len(s)] \in Whitespace THEN RStrip(SubSeq(s, 1, Len(s) - 1)) ELSE s

\* str.strip()
Strip(s) == RStrip(LStrip(s))

\* a text that is empty or holds only whitespace
IsBlank(s) == Strip(s) = <<>>

Chars(s) == {s[k] : k \in 1..Len(s)}

\* a process that has not ended yet, signalled or not
Running(p) == p \in {"running", "termsig"}

\* ------------------------------------------------------ syntax validator
\* The outcomes of "bash -n" (lines 95-105): exit status zero with or
\* without a warning on stderr, or a failure with its diagnostic text
ExternalCheck == {<<TRUE, "">>, <<TRUE, "msg">>, <<FALSE, "msg">>}

\* compile(): success, or an exception whose str() may be empty
CompileCheck == {<<TRUE, "">>, <<FALSE, "msg">>, <<FALSE, "">>}

\* every (is_valid, error_msg) the validator can return
Verdicts == ExternalCheck \cup CompileCheck

\* the test at line 91: a single line with none of the special characters
FastPath(command) ==
  "\n" \notin Chars(command) /\ Chars(command) \cap MetaChars = {}

\* test_command without the early return of line 92
check_path_no_early_return(command, language) ==
  IF language = "bash"
  THEN "bash -n"
  ELSE IF language = "python" THEN "compile" ELSE "unsupported"

\* the branch of test_command that produces the result
check_path(command, language) ==
  IF language = "bash"
  THEN IF FastPath(command) THEN "return" ELSE "bash -n"
  ELSE IF language = "python" THEN "compile" ELSE "unsupported"

\* test_command reaches subprocess.run(['bash', '-n']) at line 95
spawns_syntax_check(command, language) ==
  check_path(command, language) = "bash -n"

\* test_command(command, language): the set of (is_valid, error_msg) it can return
test_command(command, language) ==
  CASE check_path(command, language) = "return" -> {<<TRUE, "">>}
    [] check_path(command, language) = "bash -n" -> ExternalCheck
    [] check_path(command, language) = "compile" -> CompileCheck
    [] OTHER -> {<<FALSE, "msg">>}

\* extract_commands(text, validate=True) over the fenced blocks of a reply:
\* every list of (command, language, is_valid, error_msg) it can produce
extract_commands(blocks) ==
  {[k \in 1..Len(blocks) |-> <<blocks[k][1], blocks[k][2], v[k][1], v[k][2]>>] :
     v \in {u \in [1..Len(blocks) -> Verdicts] :
              \A k \in 1..Len(blocks) :
                 u[k] \in test_command(blocks[k][1], blocks[k][2])}}

\* the test of the comprehension at line 161
Kept(entry) == entry[4] = ""

RECURSIVE get_valid_commands(_)
\* the entries the comprehension keeps, in order (is_valid carried along)
get_valid_commands(all) ==
  IF all = <<>> THEN <<>>
  ELSE IF Kept(Head(all))
       THEN <<Head(all)>> \o get_valid_commands(Tail(all))
       ELSE get_valid_commands(Tail(all))

\* ------------------------------------------------------------------ Init
InitState ==
  /\ caller = "none" /\ cmd = NoCmd /\ capture_output = TRUE /\ cmd_valid = FALSE
  /\ cmd_failed = FALSE
  /\ output = "None" /\ ret = "None" /\ notices = {} /\ liveIntr = {}
  /\ exc = "none" /\ pend = "none"
  /\ handler = "custom" /\ hs = <<>>
  /\ current_process = "None" /\ returncode = <<>>
  /\ recording_file = "None"
  /\ tmp_exists = FALSE /\ rec_exists = FALSE
  /\ child = NoChild
  /\ session_history = <<>> /\ all_commands = <<>> /\ commands = <<>>
  /\ i = 0 /\ hidx = 0
  /\ command_outputs = <<>> /\ block_num = 0
  /\ nIntr = 0 /\ nIdle = 0 /\ nExec = 0
  /\ env = <<>> /\ child_env = <<>>
  /\ lines = <<>> /\ extracted = <<>>
  /\ syntax_checked = {}
  /\ stdout = <<>> /\ exit_code = "none" /\ sent = 0

\* the state once main has built the StyledCLI and entered a mode:
\* Config.check_environment (lines 49-53) let the program start, so the
\* credential is set
InitCommon ==
  /\ InitState
  /\ environ = EnvNames /\ api_key = "key"
  /\ argv = <<>>

Init == pc = "prompt" /\ InitCommon

InitExec == pc = "idle" /\ InitCommon

\* the coordinating thread itself is running (no handler frame above it,
\* no exception being unwound)
Coord(p) == pc = p /\ hs = <<>> /\ exc = "none"

\* positions of the read loop, outside execute_command
LoopPcs == {"prompt", "idle", "sel_input"}

\* positions at which the coordinating thread can be interrupted
IntrPcs == LoopPcs \cup
           {"entry", "created", "intry", "rec_created", "spawn", "assign",
            "wait", "check", "read", "f_unlink1", "f_unlink2", "f_print",
            "session"}

Top == hs[Len(hs)]
Pop == SubSeq(hs, 1, Len(hs) - 1)

\* an execution is live: the child is in the slot and the coordinator has
\* not come back from waiting for it
Live == current_process = "Popen" /\ pc \in {"wait", "h_call"}

\* ------------------------------------------------------ execute_command
\* the call itself: arguments bound, nothing executed yet
Call(c, cap, site, valid) ==
  /\ nExec < MaxExec
  /\ nExec' = nExec + 1
  /\ pc' = "entry" /\ caller' = site /\ cmd' = c /\ capture_output' = cap
  /\ cmd_valid' = valid /\ notices' = {} /\ output' = "None" /\ ret' = "None"
  /\ liveIntr' = {}
  /\ UNCHANGED <<nIntr, nIdle>>

\* "if not cmd" at line 289: the texts execute_command refuses
Rejected(text) == text = <<>>

\* lines 279-297: refuse the text, or write the scratch script
E_Entry ==
  /\ Coord("entry")
  /\ IF Rejected(cmd[1])
     THEN /\ notices' = notices \cup {"noop"}
          /\ pc' = "done"
          /\ UNCHANGED fileVars
     ELSE /\ tmp_exists' = TRUE
          /\ rec_exists' = FALSE
          /\ pc' = "created"
          /\ UNCHANGED notices
  /\ UNCHANGED <<callVars, output, ret, liveIntr, excVars, sigVars, slotVars,
                 recording_file, procVars, cliVars, cntVars>>
  /\ UNCHANGED <<envVars, statusVars, harnessVars, mainVars>>

\* lines 299-300, still outside the try
E_Init ==
  /\ Coord("created")
  /\ output' = "None"
  /\ recording_file' = "None"
  /\ pc' = "intry"
  /\ UNCHANGED <<callVars, ret, notices, liveIntr, excVars, sigVars, slotVars,
                 fileVars, procVars, cliVars, cntVars>>
  /\ UNCHANGED <<envVars, statusVars, harnessVars, mainVars>>

\* a process deprived of nothing: the ambient environment handed on as it is
build_env_leak(ambient) == [copy |-> ambient, ambient |-> ambient]

\* lines 304-305 (and 646-647): os.environ.copy(), then pop of the credential
\* with a default; the copy that results, and os.environ after it
build_env(ambient) == [copy |-> ambient \ {API_KEY}, ambient |-> ambient]

\* lines 303-316: chmod, environment, and the transcript file is created
E_Prepare ==
  /\ Coord("intry")
  /\ env' = <<build_env(environ).copy>>
  /\ environ' = build_env(environ).ambient
  /\ rec_exists' = TRUE
  /\ pc' = "rec_created"
  /\ UNCHANGED <<callVars, localVars, liveIntr, excVars, sigVars, slotVars,
                 recording_file, tmp_exists, procVars, cliVars, cntVars>>
  /\ UNCHANGED <<child_env, statusVars, harnessVars, mainVars>>

\* line 317: the transcript's name is stored
E_SetRec ==
  /\ Coord("rec_created")
  /\ recording_file' = "name"
  /\ pc' = "spawn"
  /\ UNCHANGED <<callVars, localVars, liveIntr, excVars, sigVars, slotVars,
                 fileVars, procVars, cliVars, cntVars>>
  /\ UNCHANGED <<envVars, statusVars, harnessVars, mainVars>>

\* lines 319-325: Popen forks the wrapper (with its descendant) in a new
\* process group, or fails to
E_Spawn ==
  /\ Coord("spawn")
  /\ \/ /\ child' = [w |-> "running", d |-> "running"]
        /\ child_env' = env
        /\ pc' = "assign"
        /\ UNCHANGED exc
     \/ /\ exc' = "OSError"
        /\ UNCHANGED <<pc, procVars, child_env>>
  /\ UNCHANGED <<callVars, localVars, liveIntr, pend, sigVars, slotVars,
                 recording_file, fileVars, cliVars, cntVars>>
  /\ UNCHANGED <<environ, env, statusVars, harnessVars, mainVars>>

\* line 321: the handle returned by Popen is stored in the slot
E_Assign ==
  /\ Coord("assign")
  /\ current_process' = "Popen"
  /\ returncode' = <<>>
  /\ pc' = "wait"
  /\ UNCHANGED <<callVars, localVars, liveIntr, excVars, sigVars,
                 recording_file, fileVars, procVars, cliVars, cntVars>>
  /\ UNCHANGED <<envVars, statusVars, harnessVars, mainVars>>

\* Popen.wait(): comes back at once when the return code is known, else
\* once the wrapper has ended; the wrapper is reaped and its status kept
PopenWait ==
  \/ /\ returncode # <<>>
     /\ UNCHANGED <<returncode, child>>
  \/ /\ returncode = <<>>
     /\ child.w = "killed"
     /\ returncode' = <<-SIGTERM>>
     /\ child' = [child EXCEPT !.w = "none"]
  \/ /\ returncode = <<>>
     /\ child.w = "exited"
     /\ \E st \in ExitStatuses : returncode' = <<st>>
     /\ child' = [child EXCEPT !.w = "none"]

\* line 328
E_Wait ==
  /\ Coord("wait")
  /\ PopenWait
  /\ pc' = "check"
  /\ UNCHANGED <<callVars, localVars, liveIntr, excVars, sigVars,
                 current_process, recording_file, fileVars, cliVars,
                 cntVars>>
  /\ UNCHANGED <<envVars, statusVars, harnessVars, mainVars>>

\* the condition of line 329 on the return code
Failed(code) == code # 0 /\ code # -SIGTERM

\* lines 328-330: self.current_process is read again for the return code
E_Check ==
  /\ Coord("check")
  /\ IF current_process = "None"
     THEN /\ exc' = "AttributeError"
          /\ UNCHANGED <<pc, notices>>
     ELSE /\ notices' = IF Failed(returncode[1])
                        THEN notices \cup {"failed"} ELSE notices
          /\ pc' = "read"
          /\ UNCHANGED exc
  /\ UNCHANGED <<callVars, output, ret, liveIntr, pend, sigVars, slotVars,
                 recording_file, fileVars, procVars, cliVars, cntVars>>
  /\ UNCHANGED <<envVars, statusVars, harnessVars, mainVars>>

\* the transcript is read back only after a run that did not fail
E_Read_unless_failed ==
  /\ Coord("read")
  /\ output' = IF capture_output /\ recording_file # "None" /\ rec_exists
                   /\ ~Failed(returncode[1])
               THEN "text" ELSE output
  /\ pend' = "none"
  /\ pc' = "f_unlink1"
  /\ UNCHANGED <<callVars, ret, notices, liveIntr, exc, sigVars, slotVars,
                 recording_file, fileVars, procVars, cliVars, cntVars>>
  /\ UNCHANGED <<envVars, statusVars, harnessVars, mainVars>>

\* lines 333-340: read the transcript back, then "return output"
E_Read ==
  /\ Coord("read")
  /\ output' = IF capture_output /\ recording_file # "None" /\ rec_exists
               THEN "text" ELSE output
  /\ pend' = "none"
  /\ pc' = "f_unlink1"
  /\ UNCHANGED <<callVars, ret, notices, liveIntr, exc, sigVars, slotVars,
                 recording_file, fileVars, procVars, cliVars, cntVars>>
  /\ UNCHANGED <<envVars, statusVars, harnessVars, mainVars>>

\* line 344: os.unlink(tmp_path); an OSError skips the rest of the try
F_Unlink1 ==
  /\ Coord("f_unlink1")
  /\ tmp_exists' = FALSE
  /\ pc' = IF tmp_exists THEN "f_unlink2" ELSE "f_print"
  /\ UNCHANGED <<callVars, localVars, liveIntr, excVars, sigVars, slotVars,
                 recording_file, rec_exists, procVars, cliVars, cntVars>>
  /\ UNCHANGED <<envVars, statusVars, harnessVars, mainVars>>

\* lines 345-346
F_Unlink2 ==
  /\ Coord("f_unlink2")
  /\ rec_exists' = IF recording_file # "None" /\ rec_exists THEN FALSE ELSE rec_exists
  /\ pc' = "f_print"
  /\ UNCHANGED <<callVars, localVars, liveIntr, excVars, sigVars, slotVars,
                 recording_file, tmp_exists, procVars, cliVars, cntVars>>
  /\ UNCHANGED <<envVars, statusVars, harnessVars, mainVars>>

\* lines 349-351, then the finally block ends: re-raise or return
F_Clear ==
  /\ Coord("f_print")
  /\ current_process' = "None"
  /\ recording_file' = "None"
  /\ exc' = pend
  /\ pend' = "none"
  /\ ret' = IF pend = "none" THEN output ELSE "None"
  /\ pc' = "done"
  /\ UNCHANGED <<callVars, output, notices, liveIntr, sigVars, returncode,
                 fileVars, procVars, cliVars, cntVars>>
  /\ UNCHANGED <<envVars, statusVars, harnessVars, mainVars>>

\* ------------------------------------------------------ handle_interrupt
\* a handler that absorbs every interrupt, whatever the slot holds
handle_interrupt_absorb(disposition, slot) ==
  IF disposition = "custom" THEN "terminate" ELSE "raise"

\* line 254 and line 265: which branch the SIGINT disposition takes
handle_interrupt(disposition, slot) ==
  IF disposition = "custom" /\ slot = "Popen" THEN "terminate" ELSE "raise"

\* SIGINT arrives while the coordinator or a handler frame is running
Interrupt ==
  /\ exc = "none"
  /\ hs = <<>> => pc \in IntrPcs
  /\ IF hs = <<>> /\ pc \in LoopPcs
     THEN nIdle < MaxIdleIntr /\ nIdle' = nIdle + 1 /\ UNCHANGED nIntr
     ELSE nIntr < MaxIntr /\ nIntr' = nIntr + 1 /\ UNCHANGED nIdle
  /\ liveIntr' = IF Live THEN liveIntr \cup {handler} ELSE liveIntr
  /\ LET branch == handle_interrupt(handler, current_process) IN
       /\ hs' = IF branch = "terminate"
                THEN Append(hs, [pc |-> "h_print", manual |-> FALSE]) ELSE hs
       /\ exc' = IF branch = "raise" THEN "KeyboardInterrupt" ELSE exc
       /\ handler' = IF branch = "raise" THEN "default" ELSE handler
  /\ UNCHANGED <<pc, callVars, localVars, pend, slotVars, recording_file,
                 fileVars, procVars, cliVars, nExec>>
  /\ UNCHANGED <<envVars, statusVars, harnessVars, mainVars>>

\* a handler frame ends normally: the finally at line 264 clears the slot,
\* and a direct call (line 338) falls through to "return output"
FrameReturn ==
  /\ current_process' = "None"
  /\ hs' = Pop
  /\ IF Top.manual THEN pc' = "f_unlink1" /\ pend' = "none"
                   ELSE UNCHANGED <<pc, pend>>

\* os.killpg: every running process of the group gets the signal
killpg(c) == [w |-> IF c.w = "running" THEN "termsig" ELSE c.w,
              d |-> IF c.d = "running" THEN "termsig" ELSE c.d]

\* lines 255-257: print, then killpg(getpgid(pid), SIGTERM)
H_Kill ==
  /\ hs # <<>> /\ exc = "none" /\ Top.pc = "h_print"
  /\ IF current_process = "None"
     THEN \* self.current_process.pid on None; the finally still runs
          /\ exc' = "AttributeError"
          /\ hs' = Pop
          /\ UNCHANGED <<pc, pend, slotVars, child>>
     ELSE IF child.w = "none"
          THEN \* ProcessLookupError: pass
               /\ FrameReturn
               /\ UNCHANGED <<exc, returncode, child>>
          ELSE /\ child' = killpg(child)
               /\ hs' = [hs EXCEPT ![Len(hs)].pc = "h_wait"]
               /\ UNCHANGED <<pc, excVars, slotVars>>
  /\ UNCHANGED <<callVars, localVars, liveIntr, handler, recording_file,
                 fileVars, cliVars, cntVars>>
  /\ UNCHANGED <<envVars, statusVars, harnessVars, mainVars>>

\* the frame below the top one is inside Popen.wait of the same handle
WaitBelow ==
  \/ Len(hs) = 1 /\ pc = "wait"
  \/ Len(hs) > 1 /\ hs[Len(hs) - 1].pc \in {"h_wait", "h_deadlock"}

\* line 258: wait() in the handler, then the finally at line 264
H_Wait ==
  /\ hs # <<>> /\ exc = "none" /\ Top.pc = "h_wait"
  /\ ~(Len(hs) > 1 /\ hs[Len(hs) - 1].pc = "h_deadlock")
  /\ PopenWait
  /\ FrameReturn
  /\ UNCHANGED <<callVars, localVars, liveIntr, exc, handler, recording_file,
                 fileVars, cliVars, cntVars>>
  /\ UNCHANGED <<envVars, statusVars, harnessVars, mainVars>>

\* line 258 re-entered from the signal callback while the interrupted code
\* is blocked inside wait() of the same Popen: wait() is not reentrant and
\* the callback can block for good
H_Deadlock ==
  /\ hs # <<>> /\ exc = "none" /\ Top.pc = "h_wait"
  /\ ~Top.manual
  /\ WaitBelow
  /\ hs' = [hs EXCEPT ![Len(hs)].pc = "h_deadlock"]
  /\ UNCHANGED <<pc, callVars, localVars, liveIntr, excVars, handler, slotVars,
                 recording_file, fileVars, procVars, cliVars, cntVars>>
  /\ UNCHANGED <<envVars, statusVars, harnessVars, mainVars>>

\* ------------------------------------------------- exception propagation
\* an exception reaches a handle_interrupt frame: before the try (line 255)
\* it goes on to the interrupted code; inside the try KeyboardInterrupt is
\* swallowed (line 261); the finally (line 264) clears the slot either way
X_Frame ==
  /\ hs # <<>> /\ exc # "none"
  /\ IF Top.pc = "h_print"
     THEN /\ hs' = Pop
          /\ UNCHANGED <<pc, excVars, current_process>>
     ELSE IF exc = "KeyboardInterrupt"
          THEN FrameReturn /\ exc' = "none"
          ELSE /\ hs' = Pop
               /\ current_process' = "None"
               /\ UNCHANGED <<pc, excVars>>
  /\ UNCHANGED <<callVars, localVars, liveIntr, handler, returncode,
                 recording_file, fileVars, procVars, cliVars, cntVars>>
  /\ UNCHANGED <<envVars, statusVars, harnessVars, mainVars>>

\* lines 724-732 (and 635-637): the read loop catches what reaches it
X_Loop ==
  /\ hs = <<>> /\ exc # "none"
  /\ pc \in LoopPcs
  /\ exc' = "none"
  /\ pc' = IF pc = "sel_input" THEN "prompt" ELSE pc
  /\ UNCHANGED <<callVars, localVars, liveIntr, pend, sigVars, slotVars,
                 recording_file, fileVars, procVars, cliVars, cntVars>>
  /\ UNCHANGED <<envVars, statusVars, harnessVars, mainVars>>

\* lines 279-300 are outside the try: the exception leaves execute_command
\* and no cleanup runs
X_Escape ==
  /\ hs = <<>> /\ exc # "none"
  /\ pc \in {"entry", "created"}
  /\ pc' = "done"
  /\ UNCHANGED <<callVars, localVars, liveIntr, excVars, sigVars, slotVars,
                 recording_file, fileVars, procVars, cliVars, cntVars>>
  /\ UNCHANGED <<envVars, statusVars, harnessVars, mainVars>>

\* lines 302-325 and the except clause at 338: the finally block runs with
\* the exception pending
X_Finally ==
  /\ hs = <<>> /\ exc # "none"
  /\ \/ pc \in {"intry", "rec_created", "spawn", "assign", "h_call"}
     \/ pc \in {"wait", "check", "read"} /\ exc # "KeyboardInterrupt"
  /\ pend' = exc
  /\ exc' = "none"
  /\ pc' = "f_unlink1"
  /\ UNCHANGED <<callVars, localVars, liveIntr, sigVars, slotVars,
                 recording_file, fileVars, procVars, cliVars, cntVars>>
  /\ UNCHANGED <<envVars, statusVars, harnessVars, mainVars>>

\* lines 337-338: KeyboardInterrupt in the inner try calls handle_interrupt
\* directly
X_Caught ==
  /\ hs = <<>> /\ exc = "KeyboardInterrupt"
  /\ pc \in {"wait", "check", "read"}
  /\ exc' = "none"
  /\ IF handle_interrupt("custom", current_process) = "terminate"
     THEN /\ hs' = <<[pc |-> "h_print", manual |-> TRUE]>>
          /\ pc' = "h_call"
          /\ UNCHANGED <<pend, handler>>
     ELSE \* lines 266-267 raise again, inside the except clause
          /\ handler' = "default"
          /\ pend' = "KeyboardInterrupt"
          /\ pc' = "f_unlink1"
          /\ UNCHANGED hs
  /\ UNCHANGED <<callVars, localVars, liveIntr, slotVars, recording_file,
                 fileVars, procVars, cliVars, cntVars>>
  /\ UNCHANGED <<envVars, statusVars, harnessVars, mainVars>>

\* lines 343-351: an exception other than OSError inside the finally block
\* leaves it at once
X_OutOfFinally ==
  /\ hs = <<>> /\ exc # "none"
  /\ pc \in {"f_unlink1", "f_unlink2", "f_print"}
  /\ pend' = "none"
  /\ pc' = "done"
  /\ UNCHANGED <<callVars, localVars, liveIntr, exc, sigVars, slotVars,
                 recording_file, fileVars, procVars, cliVars, cntVars>>
  /\ UNCHANGED <<envVars, statusVars, harnessVars, mainVars>>

\* ------------------------------------------------------ spawned processes
envFrame == <<pc, callVars, localVars, liveIntr, excVars, sigVars, slotVars,
              recording_file, cliVars, cntVars>>

\* the wrapper ends by itself or by a signal nobody here sent
WrapperExit ==
  /\ child.w = "running"
  /\ child' = [child EXCEPT !.w = "exited"]
  /\ UNCHANGED <<envFrame, fileVars>>
  /\ UNCHANGED <<envVars, statusVars, harnessVars, mainVars>>

\* the wrapper dies of the SIGTERM sent to its group
WrapperTerm ==
  /\ child.w = "termsig"
  /\ child' = [child EXCEPT !.w = "killed"]
  /\ UNCHANGED <<envFrame, fileVars>>
  /\ UNCHANGED <<envVars, statusVars, harnessVars, mainVars>>

\* the command of the running execution ends by itself, under its wrapper
OwnExit ==
  child.d = "running" /\ child.w = "running" /\ pc \in {"assign", "wait", "h_call"}

\* the descendant ends, signalled or not; left to itself the command can
\* end with a nonzero exit code
DescExit ==
  /\ Running(child.d)
  /\ child' = [child EXCEPT !.d = "none"]
  /\ cmd_failed' \in (IF OwnExit THEN BOOLEAN ELSE {cmd_failed})
  /\ UNCHANGED <<envFrame, fileVars>>
  /\ UNCHANGED <<envVars, harnessVars, mainVars>>

\* the command removes its own script (rm "$0")
ScriptRemoved ==
  /\ tmp_exists
  /\ Running(child.w) \/ Running(child.d)
  /\ pc \in {"assign", "wait", "h_call"}
  /\ tmp_exists' = FALSE
  /\ UNCHANGED <<envFrame, rec_exists, procVars>>
  /\ UNCHANGED <<envVars, statusVars, harnessVars, mainVars>>

ExecStep ==
  \/ E_Entry \/ E_Init \/ E_Prepare \/ E_SetRec \/ E_Spawn \/ E_Assign
  \/ E_Wait \/ E_Check \/ E_Read \/ F_Unlink1 \/ F_Unlink2 \/ F_Clear

HandlerStep == Interrupt \/ H_Kill \/ H_Wait \/ H_Deadlock

UnwindStep == X_Frame \/ X_Loop \/ X_Escape \/ X_Finally \/ X_Caught \/ X_OutOfFinally

EnvStep == WrapperExit \/ WrapperTerm \/ DescExit \/ ScriptRemoved

\* the frame of execute_command is gone: its arguments, locals and return
\* value are dropped, and the files it left are no longer tracked
Returned ==
  /\ caller' = "none" /\ cmd' = NoCmd /\ capture_output' = TRUE
  /\ cmd_valid' = FALSE /\ output' = "None" /\ ret' = "None"
  /\ notices' = {} /\ liveIntr' = {} /\ returncode' = <<>>
  /\ tmp_exists' = FALSE /\ rec_exists' = FALSE
  /\ env' = <<>> /\ child_env' = <<>>
  /\ cmd_failed' = FALSE

\* -------------------------------------------- execute_command called alone
\* the public operation with any text, language and capture flag
DirectCall ==
  /\ Coord("idle")
  /\ \E t \in CmdTexts, l \in valid_languages, cap \in BOOLEAN :
        Call(<<t, l>>, cap, "direct", FALSE)
  /\ UNCHANGED <<excVars, sigVars, slotVars, recording_file, fileVars,
                 procVars, cliVars>>
  /\ UNCHANGED <<envVars, statusVars, harnessVars, mainVars>>

DirectReturn ==
  /\ pc = "done" /\ hs = <<>> /\ caller = "direct"
  /\ pc' = "idle"
  /\ exc' = "none"
  /\ Returned
  /\ UNCHANGED <<pend, sigVars, current_process, recording_file, procVars,
                 cliVars, cntVars>>
  /\ UNCHANGED <<environ, harnessVars, mainVars>>

NextExec ==
  DirectCall \/ DirectReturn \/ ExecStep \/ HandlerStep \/ UnwindStep \/ EnvStep

SpecExec == InitExec /\ [][NextExec]_vars

\* the one thread of the program goes on whenever it can: a statement of
\* execute_command, of a handler frame, an unwinding step, or the return
ProgramStep ==
  \/ ExecStep \/ H_Kill \/ H_Wait \/ H_Deadlock \/ UnwindStep \/ DirectReturn

\* a process that received SIGTERM ends
SignalledExit ==
  \/ WrapperTerm
  \/ DescExit /\ child.d = "termsig"

\* execute_command alone, with the scheduling the interpreter and the
\* kernel give: the thread runs on, a signalled process dies; nothing makes
\* a command end by itself and nothing makes an interrupt arrive
SpecExecFair ==
  SpecExec /\ WF_vars(ProgramStep) /\ WF_vars(SignalledExit)

\* ------------------------------------------------------------ StyledCLI
\* History.get_last_commands: the blocks of the last reply
LastBlocks ==
  IF session_history = <<>> THEN <<>> ELSE session_history[Len(session_history)]

cliFrame == <<excVars, sigVars, slotVars, recording_file, fileVars, procVars>>
idleFrame == <<pc, callVars, localVars, liveIntr, cntVars>>

\* a clear that leaves the list as it was
clear_kept(outputs) == outputs

\* self.command_outputs.clear(), line 545
clear(outputs) == <<>>

\* the first member of the pair appended after execute_command returned:
\* i at line 587, -1 at line 576, block_num at lines 564 and 628
OutputIndex ==
  IF caller = "all" THEN i ELSE IF caller = "raw" THEN 0 - 1 ELSE block_num

\* "if output: self.command_outputs.append(...)", lines 563-564, 575-576,
\* 586-587 and 627-628
Collect ==
  IF ret = "text"
  THEN Append(command_outputs, <<OutputIndex, ret>>)
  ELSE command_outputs

\* lines 707-722: a request is answered and add_interaction stores the reply
Respond ==
  /\ Coord("prompt")
  /\ Len(session_history) < MaxHist
  /\ \E r \in Responses : session_history' = Append(session_history, r)
  /\ UNCHANGED <<idleFrame, cliFrame, all_commands, commands, i, hidx,
                 command_outputs, block_num>>
  /\ UNCHANGED <<envVars, statusVars, harnessVars, mainVars>>

\* handle_run_command("all"), lines 540-550, and the first turn of the loop
\* of _run_all_blocks
RunAll ==
  /\ Coord("prompt")
  /\ \E all \in extract_commands(LastBlocks) :
       LET cs == get_valid_commands(all) IN
         /\ cs # <<>>
         /\ nExec + Len(cs) <= MaxExec
         /\ commands' = cs
         /\ i' = 1
         /\ Call(<<cs[1][1], cs[1][2]>>, TRUE, "all", cs[1][3])
  /\ command_outputs' = clear(command_outputs)
  /\ UNCHANGED <<session_history, all_commands, hidx, block_num, cliFrame>>
  /\ UNCHANGED <<envVars, statusVars, harnessVars, mainVars>>

\* handle_run_command("<n>"), lines 540-567
RunNumber ==
  /\ Coord("prompt")
  /\ \E all \in extract_commands(LastBlocks), n \in 1..(MaxBlocks + 1) :
       LET cs == get_valid_commands(all) IN
         /\ cs # <<>>
         /\ IF n <= Len(cs)
            THEN /\ Call(<<cs[n][1], cs[n][2]>>, TRUE, "single", cs[n][3])
                 /\ commands' = cs
                 /\ block_num' = n
            ELSE UNCHANGED <<idleFrame, commands, block_num>>
  /\ command_outputs' = clear(command_outputs)
  /\ UNCHANGED <<session_history, all_commands, i, hidx, cliFrame>>
  /\ UNCHANGED <<envVars, statusVars, harnessVars, mainVars>>

\* handle_run_command("<raw text>"), lines 540-545 and 571-578
RunRaw ==
  /\ Coord("prompt")
  /\ \E all \in extract_commands(LastBlocks), t \in RawSpecs :
     \E v \in test_command(t, "bash") :
       LET cs == get_valid_commands(all) IN
         /\ cs # <<>>
         /\ IF v[1]
            THEN /\ Call(<<t, "bash">>, TRUE, "raw", v[1])
                 /\ commands' = cs
            ELSE UNCHANGED <<idleFrame, commands>>
  /\ command_outputs' = clear(command_outputs)
  /\ UNCHANGED <<session_history, all_commands, i, hidx, block_num, cliFrame>>
  /\ UNCHANGED <<envVars, statusVars, harnessVars, mainVars>>

\* handle_run_command("select"), lines 540-555 and 594
RunSelect ==
  /\ Coord("prompt")
  /\ \E all \in extract_commands(LastBlocks) : get_valid_commands(all) # <<>>
  /\ hidx' = Len(session_history)
  /\ pc' = "sel_scan"
  /\ command_outputs' = clear(command_outputs)
  /\ UNCHANGED <<session_history, all_commands, commands, i, block_num,
                 callVars, localVars, liveIntr, cntVars, cliFrame>>
  /\ UNCHANGED <<envVars, statusVars, harnessVars, mainVars>>

\* _run_interactive_selection, lines 596-612 and 638-642: validate the
\* reply at history_index again and show its blocks
SelScan ==
  /\ Coord("sel_scan")
  /\ IF hidx < 1
     THEN /\ pc' = "prompt"
          /\ hidx' = 0
          /\ commands' = <<>>
     ELSE \E all \in extract_commands(session_history[hidx]) :
            LET cs == get_valid_commands(all) IN
              /\ commands' = cs
              /\ IF cs = <<>>
                 THEN hidx' = hidx - 1 /\ pc' = "sel_scan"
                 ELSE hidx' = hidx /\ pc' = "sel_input"
  /\ UNCHANGED <<session_history, all_commands, i, command_outputs,
                 block_num, callVars, localVars, liveIntr, cntVars, cliFrame>>
  /\ UNCHANGED <<envVars, statusVars, harnessVars, mainVars>>

\* int(selection) of line 624, for the inputs that are numbers
SelNumber(sel) == IF sel = "1" THEN 1 ELSE IF sel = "2" THEN 2 ELSE 0

\* lines 614-633: the answer to the selection prompt
SelInput ==
  /\ Coord("sel_input")
  /\ \E sel \in Selections :
       IF sel = "q"
       THEN /\ pc' = "prompt"
            /\ hidx' = 0
            /\ commands' = <<>>
            /\ UNCHANGED <<block_num, callVars, localVars, liveIntr, cntVars>>
       ELSE IF sel = ""
       THEN /\ hidx' = hidx - 1
            /\ pc' = "sel_scan"
            /\ UNCHANGED <<commands, block_num, callVars, localVars, liveIntr,
                           cntVars>>
       ELSE IF SelNumber(sel) >= 1 /\ SelNumber(sel) <= Len(commands)
       THEN /\ Call(<<commands[SelNumber(sel)][1], commands[SelNumber(sel)][2]>>,
                    TRUE, "select", commands[SelNumber(sel)][3])
            /\ block_num' = SelNumber(sel)
            /\ UNCHANGED <<hidx, commands>>
       ELSE /\ pc' = "sel_scan"
            /\ UNCHANGED <<hidx, commands, block_num, callVars, localVars,
                           liveIntr, cntVars>>
  /\ UNCHANGED <<session_history, all_commands, i, command_outputs, cliFrame>>
  /\ UNCHANGED <<envVars, statusVars, harnessVars, mainVars>>

\* "!bash <text>", lines 480-483 and 649: str has no trim(), so
\* run_bash_command raises before it reaches execute_command
BashCmd ==
  /\ Coord("prompt")
  /\ exc' = "AttributeError"
  /\ UNCHANGED <<idleFrame, pend, sigVars, slotVars, recording_file, fileVars,
                 procVars, cliVars>>
  /\ UNCHANGED <<envVars, statusVars, harnessVars, mainVars>>

\* "!bash" alone, lines 484-486 and 646-673: the environment is built and
\* subprocess.run starts the interactive session with it
BashSession ==
  /\ Coord("prompt")
  /\ Len(session_history) < MaxHist
  /\ env' = <<build_env(environ).copy>>
  /\ environ' = build_env(environ).ambient
  /\ child_env' = <<build_env(environ).copy>>
  /\ pc' = "session"
  /\ UNCHANGED <<callVars, localVars, liveIntr, cntVars, cliFrame, cliVars,
                 statusVars, harnessVars, mainVars>>

\* lines 675-693: the session is over, or KeyboardInterrupt ended
\* subprocess.run; either way add_interaction stores its transcript, which
\* sits in an untagged fence
SessionEnd ==
  /\ pc = "session" /\ hs = <<>>
  /\ exc \in {"none", "KeyboardInterrupt"}
  /\ exc' = "none"
  /\ session_history' = Append(session_history, <<>>)
  /\ env' = <<>> /\ child_env' = <<>>
  /\ pc' = "prompt"
  /\ UNCHANGED <<callVars, localVars, liveIntr, cntVars, pend, sigVars,
                 slotVars, recording_file, fileVars, procVars, all_commands,
                 commands, i, hidx, command_outputs, block_num, environ,
                 statusVars, harnessVars, mainVars>>

\* lines 582-590: the next turn of the loop of _run_all_blocks
BatchNext ==
  /\ pc = "done" /\ hs = <<>> /\ caller = "all"
  /\ exc = "none"
  /\ i < Len(commands)
  /\ i' = i + 1
  /\ nExec' = nExec + 1
  /\ pc' = "entry"
  /\ cmd' = <<commands[i + 1][1], commands[i + 1][2]>>
  /\ cmd_valid' = commands[i + 1][3]
  /\ notices' = {} /\ output' = "None" /\ ret' = "None" /\ liveIntr' = {}
  /\ returncode' = <<>>
  /\ cmd_failed' = FALSE
  /\ command_outputs' = Collect
  /\ UNCHANGED <<caller, capture_output, session_history, all_commands,
                 commands, hidx, block_num, excVars, sigVars, current_process,
                 recording_file, fileVars, procVars, nIntr, nIdle>>
  /\ UNCHANGED <<envVars, harnessVars, mainVars>>

\* execute_command is over and control is back in the read loop: the
\* batch ended or broke off (line 590), or an exception was reported
\* (lines 528-530 and 724-732)
Resume ==
  /\ pc = "done" /\ hs = <<>> /\ caller # "direct"
  /\ ~(caller = "all" /\ exc = "none" /\ i < Len(commands))
  /\ pc' = "prompt"
  /\ exc' = "none"
  /\ Returned
  /\ commands' = <<>> /\ i' = 0 /\ hidx' = 0 /\ block_num' = 0
  /\ command_outputs' = IF exc = "none" THEN Collect ELSE command_outputs
  /\ UNCHANGED <<pend, sigVars, current_process, recording_file, procVars,
                 session_history, all_commands, cntVars>>
  /\ UNCHANGED <<environ, harnessVars, mainVars>>

CliStep ==
  \/ Respond \/ RunAll \/ RunNumber \/ RunRaw \/ RunSelect
  \/ SelScan \/ SelInput \/ BashCmd \/ BashSession \/ SessionEnd
  \/ BatchNext \/ Resume

Next == CliStep \/ ExecStep \/ HandlerStep \/ UnwindStep \/ EnvStep

Spec == Init /\ [][Next]_vars

\* --------------------------------------------- the validator called alone
\* block texts as the extractor hands them over: stripped and not empty
StrippedTexts == {t \in CmdTexts : t # <<>> /\ Strip(t) = t}
ValidateBlocks == StrippedTexts \X valid_languages
ValidateResponses == UNION {[1..n -> ValidateBlocks] : n \in 0..MaxBlocks}

InitValidate == pc = "validate" /\ InitCommon

validateFrame == <<callVars, localVars, liveIntr, excVars, sigVars, slotVars,
                   recording_file, fileVars, procVars, i, hidx,
                   command_outputs, block_num, cntVars>>

\* get_valid_commands(text), lines 155-161, on any reply
Validate ==
  /\ pc = "validate"
  /\ \E r \in ValidateResponses :
       \E all \in extract_commands(r) :
         /\ session_history' = <<r>>
         /\ all_commands' = all
         /\ commands' = get_valid_commands(all)
         /\ syntax_checked' = {r[k][1] : k \in {j \in 1..Len(r) :
                                    spawns_syntax_check(r[j][1], r[j][2])}}
  /\ pc' = "validated"
  /\ UNCHANGED validateFrame
  /\ UNCHANGED <<envVars, statusVars, lines, extracted, mainVars>>

\* the list was handed back; the next reply can be examined
ValidateReturn ==
  /\ pc = "validated"
  /\ pc' = "validate"
  /\ session_history' = <<>> /\ all_commands' = <<>> /\ commands' = <<>>
  /\ syntax_checked' = {}
  /\ UNCHANGED validateFrame
  /\ UNCHANGED <<envVars, statusVars, lines, extracted, mainVars>>

NextValidate == Validate \/ ValidateReturn

SpecValidate == InitValidate /\ [][NextValidate]_vars

\* ------------------------------------------------------- the extractor
\* str.lower() on a token
Lower(tok) == IF tok = "BASH" THEN "bash" ELSE tok

\* stripped.startswith(FENCE)
StartsWithFence(stripped) == stripped # <<>> /\ Head(stripped) = FENCE

\* stripped[3:].strip().lower(), lines 131 and 132
Tag(stripped) ==
  LET rest == Strip(Tail(stripped)) IN [k \in 1..Len(rest) |-> Lower(rest[k])]

Recognised(language) == \E l \in valid_languages : language = <<l>>

RECURSIVE Join(_)
\* '\n'.join(current_block)
Join(block) ==
  IF block = <<>> THEN <<>>
  ELSE IF Len(block) = 1 THEN block[1]
       ELSE block[1] \o <<"\n">> \o Join(Tail(block))

\* the state of the loop of lines 122-126, with the number of the line
\* that opened the current block
ScanStart == [in_block |-> FALSE, current_block |-> <<>>,
              current_language |-> "None", opened |-> 0, commands |-> <<>>]

\* the body is emitted as it was accumulated, not trimmed
Emit_raw(st, k) ==
  LET command == Join(st.current_block) IN
    IF st.current_block # <<>> /\ st.current_language # "None" /\ Strip(command) # <<>>
    THEN Append(st.commands,
                [command |-> command, language |-> st.current_language,
                 body |-> st.current_block, first |-> st.opened, last |-> k])
    ELSE st.commands

\* lines 140-146 without the validation: the block is emitted when its
\* joined and stripped body is not empty
Emit(st, k) ==
  LET command == Strip(Join(st.current_block)) IN
    IF st.current_block # <<>> /\ st.current_language # "None" /\ command # <<>>
    THEN Append(st.commands,
                [command |-> command, language |-> st.current_language,
                 body |-> st.current_block, first |-> st.opened, last |-> k])
    ELSE st.commands

\* lines 128-151: one turn of the loop, on line number k
scan_line(st, line, k) ==
  LET stripped == Strip(line) IN
    IF StartsWithFence(stripped) /\ ~st.in_block
    THEN IF Recognised(Tag(stripped))
         THEN [st EXCEPT !.in_block = TRUE, !.current_block = <<>>,
                         !.current_language = Tag(stripped)[1], !.opened = k]
         ELSE st
    ELSE IF stripped = <<FENCE>> /\ st.in_block
    THEN [st EXCEPT !.commands = Emit(st, k), !.in_block = FALSE,
                    !.current_block = <<>>, !.current_language = "None"]
    ELSE IF st.in_block
    THEN [st EXCEPT !.current_block = Append(st.current_block, line)]
    ELSE st

RECURSIVE scan(_, _, _)
\* the loop over lines k..Len(ls)
scan(ls, k, st) ==
  IF k > Len(ls) THEN st ELSE scan(ls, k + 1, scan_line(st, ls[k], k))

\* the input ends inside a block and the block is emitted all the same
scan_end_flush(st) == IF st.in_block THEN Emit(st, st.opened + Len(st.current_block) + 1)
                      ELSE st.commands

\* line 153: what is returned once the input ends
scan_end(st) == st.commands

\* extract_commands(text, validate=False), lines 116-153, on the lines of text
parse_blocks(ls) == scan_end(scan(ls, 1, ScanStart))

\* the variants of the extractor a caller can choose from: the signature
\* (text, validate) and the fixed valid_languages of line 126 offer one
Variants == {"strict"}

\* what the extractor returns when asked for variant v
extract_variant(v, ls) == parse_blocks(ls)

InitExtract == pc = "extract" /\ InitCommon

extractFrame == <<callVars, localVars, liveIntr, excVars, sigVars, slotVars,
                  recording_file, fileVars, procVars, cliVars, cntVars,
                  envVars, statusVars>>

\* extract_commands on any text
Extract ==
  /\ pc = "extract"
  /\ \E ls \in Texts :
       /\ lines' = ls
       /\ extracted' = parse_blocks(ls)
  /\ pc' = "extracted"
  /\ UNCHANGED <<extractFrame, syntax_checked, mainVars>>

\* the list was handed back
ExtractReturn ==
  /\ pc = "extracted"
  /\ pc' = "extract"
  /\ lines' = <<>> /\ extracted' = <<>>
  /\ UNCHANGED <<extractFrame, syntax_checked, mainVars>>

NextExtract == Extract \/ ExtractReturn

SpecExtract == InitExtract /\ [][NextExtract]_vars

\* ------------------------------------------------------------------ main
\* The start of the program (lines 745-757): the StyledCLI is built first,
\* then the arguments choose the mode.

\* the words an argument can be
ArgWords == {"-h", "--help", "msg"}

\* every sys.argv[1:] of up to MaxArgs words
Args == UNION {[1..n -> ArgWords] : n \in 0..MaxArgs}

\* the list tested at line 749
HelpFlags == {"-h", "--help"}

\* what os.getenv('ANTHROPIC_API_KEY') can give: unset, set to the empty
\* string, set to a key
KeyValues == {"None", "", "key"}

InitMain ==
  /\ pc = "main"
  /\ InitState
  /\ argv \in Args
  /\ api_key \in KeyValues
  /\ environ = IF api_key = "None" THEN EnvNames \ {API_KEY} ELSE EnvNames

mainFrame == <<callVars, localVars, liveIntr, excVars, sigVars, slotVars,
               recording_file, fileVars, procVars, cliVars, cntVars,
               envVars, statusVars, harnessVars>>

\* sys.exit(code), or the interpreter ending after main returned or raised
Exit(code) == pc' = "exited" /\ exit_code' = code

\* Config.check_environment, lines 49-53: the test `not os.getenv(...)` passes
check_environment(key) == key \notin {"None", ""}

\* main, line 746: StyledCLI() -> Config() -> check_dependencies (requests was
\* imported at line 6), check_environment
CheckEnvironment ==
  /\ pc = "main"
  /\ IF check_environment(api_key)
     THEN pc' = "config" /\ UNCHANGED <<stdout, exit_code>>
     ELSE stdout' = Append(stdout, "error") /\ Exit(1)
  /\ UNCHANGED <<argv, api_key, sent, mainFrame>>

\* the rest of the constructors: Config.init_history (lines 55-62) and
\* StyledCLI.__init__ (lines 366-378) create ~/.claude-cli, which the file
\* system can refuse; the OSError leaves main
Construct ==
  /\ pc = "config"
  /\ \/ pc' = "dispatch" /\ UNCHANGED <<stdout, exit_code>>
     \/ stdout' = Append(stdout, "traceback") /\ Exit(1)
  /\ UNCHANGED <<argv, api_key, sent, mainFrame>>

\* main, lines 748-757
Dispatch ==
  /\ pc = "dispatch"
  /\ IF Len(argv) > 0
     THEN IF argv[1] \in HelpFlags
          THEN stdout' = Append(stdout, "usage") /\ Exit(0)
          ELSE pc' = "single" /\ UNCHANGED <<stdout, exit_code>>
     ELSE pc' = "interactive" /\ UNCHANGED <<stdout, exit_code>>
  /\ UNCHANGED <<argv, api_key, sent, mainFrame>>

\* single_message_mode, lines 734-743: one request (send_message turns its
\* own failures into the text it returns), then main returns
SingleMessage ==
  /\ pc = "single"
  /\ sent' = sent + 1
  /\ stdout' = Append(stdout, "response")
  /\ Exit(0)
  /\ UNCHANGED <<argv, api_key, mainFrame>>

\* interactive_mode, lines 695-696: the welcome panel, then the read loop
EnterLoop ==
  /\ pc = "interactive"
  /\ stdout' = Append(stdout, "welcome")
  /\ pc' = "loop"
  /\ UNCHANGED <<argv, api_key, exit_code, sent, mainFrame>>

\* the read loop's way out, lines 724-728: end of input
LoopEOF ==
  /\ pc = "loop"
  /\ stdout' = Append(stdout, "goodbye")
  /\ Exit(0)
  /\ UNCHANGED <<argv, api_key, sent, mainFrame>>

NextMain ==
  \/ CheckEnvironment
  \/ Construct
  \/ Dispatch
  \/ SingleMessage
  \/ EnterLoop
  \/ LoopEOF

SpecMain == InitMain /\ [][NextMain]_vars

\* ================================================================ claims
\* positions of execute_command at which the child has been spawned
SpawnedPcs == {"assign", "wait", "check", "read", "h_call"}

\* positions of execute_command before the child is spawned
StartingPcs == {"entry", "created", "intry", "rec_created", "spawn"}

\* C1: when execute_command has ended, by whatever path, neither the
\* scratch script nor the transcript of that execution is on disk.
C1_NoTempFileRemains ==
  pc = "done" => ~tmp_exists /\ ~rec_exists

\* C2: an execution that was interrupted while live ends by returning to
\* its caller, with no exception and without the "Command failed" notice.
C2_InterruptedReturnsQuietly ==
  (pc = "done" /\ liveIntr # {}) => (exc = "none" /\ "failed" \notin notices)

\* C3: when the interrupt handler clears the slot, no process of the
\* child's group (the wrapper or its descendant) is still running.
C3_GroupGoneWhenSlotCleared ==
  [][(hs # <<>> /\ Len(hs') < Len(hs)
        /\ current_process = "Popen" /\ current_process' = "None")
       => (~Running(child'.w) /\ ~Running(child'.d))]_vars

\* C4: an interrupt delivered while the slot is empty raises
\* KeyboardInterrupt into the interrupted code and signals no process.
C4_EmptySlotInterruptPropagates ==
  [][((nIntr' # nIntr \/ nIdle' # nIdle) /\ current_process = "None")
       => (exc' = "KeyboardInterrupt" /\ child' = child /\ hs' = hs)]_vars

\* a KeyboardInterrupt is in flight in the caller's loop, delivered there
\* while the slot was empty
C4_Witness ==
  exc = "KeyboardInterrupt" /\ hs = <<>> /\ pc = "idle"
    /\ current_process = "None" /\ nIdle > 0 /\ child = NoChild

\* C5: after the default disposition was restored, an execution that is
\* interrupted while live does not end with its child still running
\* unsignalled: the group was sent the signal and the interrupt absorbed.
C5_DualModeAfterPassThrough ==
  (pc = "done" /\ "default" \in liveIntr) => child.w # "running"

\* C6: for a text that is empty or only whitespace execute_command creates
\* no scratch file and spawns nothing.
C6_BlankTextDoesNothing ==
  (caller # "none" /\ IsBlank(cmd[1]))
     => (pc \in {"entry", "done"} /\ ~tmp_exists /\ ~rec_exists)

\* C7: a child that is still running is the one in the slot (or is just
\* being stored there), and no execution starts while the child of an
\* earlier one is still running.
C7_SingleLiveSession ==
  /\ Running(child.w) => (current_process = "Popen" \/ pc = "assign")
  /\ pc \in StartingPcs => ~Running(child.w)

\* C8: a text for which a command of the user had a child spawned was
\* found valid by the validator.
C8_SpawnedTextWasValid ==
  (pc \in SpawnedPcs /\ caller \in {"all", "single", "select", "raw"})
     => cmd_valid

\* an extracted entry is in the list get_valid_commands returned
Listed(entry) == \E k \in 1..Len(commands) : commands[k] = entry

\* C9: a block is in the list of get_valid_commands exactly when the
\* validator found it valid.
C9_ListedIffValid ==
  \A k \in 1..Len(all_commands) : Listed(all_commands[k]) <=> all_commands[k][3]

\* C10: when a later turn of a "run all" batch starts, the files of the
\* turn before are deleted and the slot is empty.
C10_BatchTurnsAfterCleanup ==
  (caller = "all" /\ i > 1 /\ pc = "entry")
     => (~tmp_exists /\ ~rec_exists /\ current_process = "None")

\* C11: every spawned command is handed the program's environment without
\* the credential variable, and no step changes the program's environment.
C11_ChildEnvWithoutCredential ==
  [][/\ environ' = environ
     /\ child_env' # <<>> => child_env'[1] = environ \ {API_KEY}]_vars

\* a block's child is running, spawned while the credential was set
C11_Witness ==
  /\ child_env # <<>> /\ API_KEY \in environ /\ "PATH" \in child_env[1]
  /\ child.w = "running" /\ caller # "none"

\* C12: an execution whose command ended by itself with a nonzero exit code,
\* and which no interrupt touched, prints the "Command failed" notice.
C12_FailureIsReported ==
  (pc = "read" /\ cmd_failed /\ liveIntr = {}) => "failed" \in notices

\* the run failed: its command ended with a nonzero exit code, or the
\* failure notice was printed for the wrapper's status
RunFailed == cmd_failed \/ "failed" \in notices

\* C13: an execution no interrupt touched whose run failed returns the
\* transcript when capture was requested, and no text when it was not.
C13_FailedRunStillReturnsTranscript ==
  (pc = "done" /\ nIntr = 0 /\ RunFailed)
     => (exc = "none" /\ ret = IF capture_output THEN "text" ELSE "None")

\* a captured run has ended with the failure notice and its transcript
C13_Witness ==
  /\ pc = "done" /\ nIntr = 0 /\ "failed" \in notices /\ cmd_failed
  /\ capture_output /\ ret = "text"

\* a line whose trimmed form starts with the triple delimiter
FenceLine(line) == StartsWithFence(Strip(line))

\* C14: the returned blocks come from line ranges that follow each other
\* without overlap, and no line of a block's body is a fence delimiter line.
C14_DisjointSpansNoFenceInBody ==
  pc = "extracted" =>
    /\ \A k \in 1..Len(extracted) :
         /\ extracted[k].first < extracted[k].last
         /\ k > 1 => extracted[k - 1].last < extracted[k].first
    /\ \A k \in 1..Len(extracted) :
         \A n \in 1..Len(extracted[k].body) : ~FenceLine(extracted[k].body[n])

\* an opening line with a recognised tag, and a closing delimiter line
OpensBlock(line) == FenceLine(line) /\ Recognised(Tag(Strip(line)))
ClosesBlock(line) == Strip(line) = <<FENCE>>

\* ls holds one well-formed fenced block, opened at line a and closed at
\* line b, and no other fence delimiter line
SingleFence(ls, a, b) ==
  /\ a \in 1..Len(ls) /\ b \in 1..Len(ls) /\ a < b
  /\ OpensBlock(ls[a]) /\ ClosesBlock(ls[b])
  /\ \A k \in 1..Len(ls) : k \notin {a, b} => ~FenceLine(ls[k])

\* trim(B) for the body between lines a and b
TrimmedBody(ls, a, b) == Strip(Join(SubSeq(ls, a + 1, b - 1)))

\* exactly one block, with body trim(B) and the language of the opening line
OneBlock(ls, a, b) ==
  /\ Len(extracted) = 1
  /\ extracted[1].command = TrimmedBody(ls, a, b)
  /\ extracted[1].language = Tag(Strip(ls[a]))[1]

\* C15 as claimed: a text holding a single well-formed fenced block, with
\* any body, yields exactly one block with body trim(B) and language L.
C15_SingleFenceAnyBody ==
  pc = "extracted" =>
    \A a, b \in 1..Len(lines) : SingleFence(lines, a, b) => OneBlock(lines, a, b)

\* C15 amended: the same for every body whose trimmed form is not empty.
C15_SingleFenceNonBlankBody ==
  pc = "extracted" =>
    \A a, b \in 1..Len(lines) :
       (SingleFence(lines, a, b) /\ TrimmedBody(lines, a, b) # <<>>)
          => OneBlock(lines, a, b)

\* a reply of prose, an opening line, an indented body line and a closing
\* line was scanned and gave its one block
C15_Witness ==
  /\ pc = "extracted" /\ Len(lines) = 4 /\ SingleFence(lines, 2, 4)
  /\ lines[3] = <<" ", "e">> /\ Len(extracted) = 1
  /\ extracted[1].command = <<"e">>

\* line a opens a fence that no later line closes
Unterminated(ls, a) ==
  /\ a \in 1..Len(ls) /\ OpensBlock(ls[a])
  /\ \A k \in (a + 1)..Len(ls) : ~ClosesBlock(ls[k])

\* C16: when a fence is opened and never closed, no returned block reaches
\* the opening line or the lines after it.
C16_UnterminatedFenceYieldsNothing ==
  pc = "extracted" =>
    \A a \in 1..Len(lines) :
       Unterminated(lines, a) =>
          \A k \in 1..Len(extracted) : extracted[k].last < a

\* two lines of prose and then an unterminated fence with a body line were
\* scanned and gave nothing
C16_Witness ==
  /\ pc = "extracted" /\ Len(lines) = 4 /\ Unterminated(lines, 3)
  /\ lines[4] = <<"e">> /\ Len(extracted) = 0
  /\ ~FenceLine(lines[1]) /\ ~FenceLine(lines[2])

\* ls is one fence with no tag around a body line that is not blank
UntaggedFence(ls) ==
  /\ Len(ls) = 3 /\ Strip(ls[1]) = <<FENCE>> /\ ClosesBlock(ls[3])
  /\ ~FenceLine(ls[2]) /\ Strip(ls[2]) # <<>>

\* C17: the extractor can be set to a strict variant, under which an
\* untagged fence yields no block, and to a permissive variant, under
\* which it yields a block tagged with the shell dialect.
C17_StrictAndPermissiveVariants ==
  (pc = "extracted" /\ UntaggedFence(lines)) =>
     /\ \E v \in Variants : extract_variant(v, lines) = <<>>
     /\ \E v \in Variants :
          /\ Len(extract_variant(v, lines)) = 1
          /\ extract_variant(v, lines)[1].language = "bash"

\* C18: a shell block whose body is one line with none of & | ; < > ( ) is
\* reported valid with an empty reason, and its text is never handed to the
\* external syntax check.
C18_PlainShellLineValidWithoutCheck ==
  pc = "validated" =>
    \A k \in 1..Len(all_commands) :
      ( /\ all_commands[k][2] = "bash"
        /\ "\n" \notin Chars(all_commands[k][1])
        /\ Chars(all_commands[k][1]) \cap MetaChars = {} ) =>
      ( /\ all_commands[k][3] = TRUE
        /\ all_commands[k][4] = ""
        /\ all_commands[k][1] \notin syntax_checked )

\* a reply with a plain shell line next to a shell block that was checked
C18_Witness ==
  /\ pc = "validated"
  /\ syntax_checked # {}
  /\ \E k \in 1..Len(all_commands) :
       /\ all_commands[k][2] = "bash"
       /\ Chars(all_commands[k][1]) \cap MetaChars = {}
       /\ all_commands[k][3] = TRUE /\ all_commands[k][4] = ""

\* C19: when the first argument is the help flag, the program prints the
\* usage text and exits with code 0, whatever the environment; it never
\* shows the read loop's welcome and never posts a request.
C19_HelpAlwaysPrintsUsage ==
  (argv # <<>> /\ argv[1] \in HelpFlags) =>
    /\ sent = 0
    /\ \A k \in 1..Len(stdout) : stdout[k] # "welcome"
    /\ pc = "exited" => (exit_code = 0 /\ stdout = <<"usage">>)

\* the call sites of execute_command inside handle_run_command
RunCallers == {"all", "single", "select", "raw"}

\* outs is what one run request can have collected: captured texts only,
\* for "all" under increasing block numbers up to the last block started,
\* otherwise at most one, under the number of the block that was run
\* (-1 for a raw command, which is no block)
OnlyThisRequest(outs, site, last, num) ==
  /\ \A k \in 1..Len(outs) : outs[k][2] = "text"
  /\ IF site = "all"
     THEN /\ \A k \in 1..Len(outs) : outs[k][1] \in 1..last
          /\ \A j, k \in 1..Len(outs) : j < k => outs[j][1] < outs[k][1]
     ELSE /\ Len(outs) <= 1
          /\ \A k \in 1..Len(outs) :
               outs[k][1] = IF site = "raw" THEN 0 - 1 ELSE num

\* C20: when a "!run" request that executed at least one command is over,
\* command_outputs holds only what that request captured, in execution
\* order, each under the number of the block that produced it; the output
\* of the last command, when it returned one, is the last entry.
C20_OutputsOfThisRunOnly ==
  [][(pc = "done" /\ pc' = "prompt" /\ caller \in RunCallers) =>
       /\ OnlyThisRequest(command_outputs', caller, i, block_num)
       /\ (exc = "none" /\ ret = "text") =>
            /\ command_outputs' # <<>>
            /\ command_outputs'[Len(command_outputs')] = <<OutputIndex, "text">>
            /\ caller # "raw" => commands[OutputIndex][1] = cmd[1]]_vars

\* a second run request returned an output and is about to end, the
\* collection cleared of what came before it
C20_Witness ==
  /\ pc = "done" /\ hs = <<>> /\ exc = "none"
  /\ caller = "single" /\ block_num = 1
  /\ nExec = 2
  /\ ret = "text"
  /\ command_outputs = <<>>

\* C21: a failed deletion during cleanup is swallowed and hides nothing: in
\* an execution no interrupt touched, once the deletions of the finally
\* block are over the transcript file is gone whether or not the deletion
\* of the scratch script failed, and the call returns the output it read.
C21_CleanupFailureSwallowed ==
  (hs = <<>> /\ exc = "none" /\ nIntr = 0) =>
    /\ pc = "f_print" => ~(recording_file # "None" /\ rec_exists)
    /\ (pc = "done" /\ "noop" \notin notices /\ returncode # <<>>) =>
         ret = IF capture_output THEN "text" ELSE "None"

\* C22: the slot is filled by the coordinator only (line 321); the
\* coordinator never comes to read the return code (line 329) of a slot the
\* handler has emptied; and no signal goes to the group of a child
\* that was already reaped.
C22_SlotNotUsedAfterHandlerCleared ==
  [][/\ (current_process # "Popen" /\ current_process' = "Popen") =>
          (hs = <<>> /\ pc = "assign")
     /\ ~(hs' = <<>> /\ exc' = "none" /\ pc' = "check"
          /\ current_process' = "None")
     /\ child.w = "none" => ~(child.d = "running" /\ child'.d = "termsig")]_vars

\* the execution is over and cleaned: both temp files deleted, the slot and
\* the transcript's name cleared
Cleaned ==
  /\ ~tmp_exists /\ ~rec_exists
  /\ current_process = "None" /\ recording_file = "None"

\* C23: the slot is empty whenever no execution is under way; an execution
\* of a non-blank text is checked for its return code, or counted as
\* interrupted while live, only after its child was spawned; and it is
\* Cleaned when control goes back to its caller.
C23_IdleSpawningRunningCleaned ==
  /\ pc \in LoopPcs => current_process = "None"
  /\ (caller # "none" /\ ~IsBlank(cmd[1])) =>
       /\ (pc \in {"check", "read"} \/ liveIntr # {}) => child_env # <<>>
       /\ pc = "done" => Cleaned

\* C24: there is no timeout, so an execution no interrupt touched is over
\* only when its child has ended; and, signalled processes ending, an
\* execution interrupted while live leads to control being back with the
\* caller, and is then found with the slot empty and both temp files
\* deleted.
C24_NoTimeoutInterruptReturns ==
  /\ []((pc = "done" /\ nIntr = 0 /\ child_env # <<>>) => ~Running(child.w))
  /\ []((pc = "done" /\ hs = <<>> /\ liveIntr # {}) =>
         (current_process = "None" /\ ~tmp_exists /\ ~rec_exists))
  /\ (liveIntr # {}) ~> (pc = "done" /\ hs = <<>>)

\* C25: in a "run all" batch that is the first thing executed (so that every
\* interrupt counted so far fell inside it), once an interrupt was delivered
\* no later block of the batch is started.
C25_InterruptStopsBatch ==
  [][(caller = "all" /\ pc = "done" /\ nExec = i /\ nIntr > 0)
       => pc' # "entry"]_vars

\* C26: while the wrapper spawned by the execution under way is still
\* running, the program neither deletes that execution's scratch script or
\* transcript nor clears the slot.
C26_NothingReleasedWhileChildRuns ==
  [][(caller # "none" /\ child_env # <<>> /\ Running(child.w)) =>
       /\ ~(current_process = "Popen" /\ current_process' = "None")
       /\ ~(pc = "f_unlink1" /\ tmp_exists /\ ~tmp_exists')
       /\ ~(pc = "f_unlink2" /\ rec_exists /\ ~rec_exists')]_vars

====
